---- MODULE Spec2Model ----
(***************************************************************************)
(* f3cp: dump / load of Fedora 3 objects as a streamed JSON array.         *)
(*                                                                         *)
(* Strings and byte slices are sequences of byte values (a Go string is a  *)
(* byte sequence, and string([]byte) copies the bytes unchanged).          *)
(* The remote Fedora client (remoteFedora) is not part of main.go; its     *)
(* operations are modelled from the remote-store contract of the spec.     *)
(***************************************************************************)
EXTENDS Integers, Sequences, FiniteSets, TLC

\* ------------------------------------------------------------------ bounds
MaxContentLen == 2
MaxItems == 2
MaxIds == 2
MaxElems == 2
MaxTailLen == 2

\* ------------------------------------------------------------ byte strings
\* 'A', and the two bytes of U+00E9: 0xC3 is a lead byte, 0xA9 a continuation
Bytes == {65, 195, 169}

RECURSIVE SeqsUpTo(_, _)
SeqsUpTo(S, n) ==
    IF n = 0 THEN {<<>>}
    ELSE LET shorter == SeqsUpTo(S, n - 1)
         IN shorter \cup {Append(s, x) : s \in {t \in shorter : Len(t) = n - 1}, x \in S}

ByteSeqs == SeqsUpTo(Bytes, MaxContentLen)

Cont(b, lo, hi) == b >= lo /\ b <= hi

\* the number of bytes of the well-formed UTF-8 sequence that starts b at
\* position i, or 0 when no well-formed sequence starts there
Utf8SeqLen(b, i) ==
    LET n == Len(b)
        c0 == b[i]
        c1 == IF i + 1 <= n THEN b[i + 1] ELSE 0
        c2 == IF i + 2 <= n THEN b[i + 2] ELSE 0
        c3 == IF i + 3 <= n THEN b[i + 3] ELSE 0
        lo == IF c0 = 224 THEN 160 ELSE IF c0 = 240 THEN 144 ELSE 128
        hi == IF c0 = 237 THEN 159 ELSE IF c0 = 244 THEN 143 ELSE 191
    IN  IF c0 < 128 THEN 1
        ELSE IF c0 >= 194 /\ c0 <= 223
            THEN IF Cont(c1, 128, 191) THEN 2 ELSE 0
        ELSE IF c0 >= 224 /\ c0 <= 239
            THEN IF Cont(c1, lo, hi) /\ Cont(c2, 128, 191) THEN 3 ELSE 0
        ELSE IF c0 >= 240 /\ c0 <= 244
            THEN IF Cont(c1, lo, hi) /\ Cont(c2, 128, 191) /\ Cont(c3, 128, 191)
                 THEN 4 ELSE 0
        ELSE 0

RECURSIVE Utf8ValidFrom(_, _)
Utf8ValidFrom(b, i) ==
    IF i > Len(b) THEN TRUE
    ELSE LET k == Utf8SeqLen(b, i)
         IN  k > 0 /\ Utf8ValidFrom(b, i + k)

Utf8Valid(b) == Utf8ValidFrom(b, 1)

\* bytewise lexicographic order of Go strings: a < b
RECURSIVE StrLessFrom(_, _, _)
StrLessFrom(a, b, i) ==
    IF i > Len(b) THEN FALSE
    ELSE IF i > Len(a) THEN TRUE
    ELSE IF a[i] # b[i] THEN a[i] < b[i]
    ELSE StrLessFrom(a, b, i + 1)

StrLess(a, b) == StrLessFrom(a, b, 1)

\* s with x inserted before the first element that x is less than
RECURSIVE InsertSorted(_, _)
InsertSorted(s, x) ==
    IF s = <<>> THEN <<x>>
    ELSE IF StrLess(x, Head(s)) THEN <<x>> \o s
    ELSE <<Head(s)>> \o InsertSorted(Tail(s), x)

\* the names left in the order the remote listed them
SortStringsNot(s) == s

RECURSIVE SortStrings(_)
SortStrings(s) ==
    IF s = <<>> THEN <<>>
    ELSE InsertSorted(SortStrings(Tail(s)), Head(s))

\* every enumeration, without repetition, of the set S
RECURSIVE Perms(_)
Perms(S) ==
    IF S = {} THEN {<<>>}
    ELSE UNION {{<<x>> \o p : p \in Perms(S \ {x})} : x \in S}

\* ------------------------------------------------------------------- names
DC == <<68, 67>>
dcLower == <<100, 99>>
DName == <<68>>
Names == {DC, dcLower, DName}

PidA == <<97>>
PidB == <<98>>
PidC == <<99>>
PIDs == {PidA, PidB, PidC}

ErrNil == "nil"
ErrNotFound == "ErrNotFound"
ErrTransport == "ErrTransport"
ErrRead == "ErrRead"
ErrDecode == "ErrDecode"

\* ----------------------------------------------------------------- records
ObjectInfo(pid, label) ==
    [PID |-> pid, Label |-> label, CreateDate |-> "2014-07-05",
     LastModDate |-> "0001-01-01", State |-> "A"]

ZeroObjectInfo ==
    [PID |-> <<>>, Label |-> "", CreateDate |-> "", LastModDate |-> "", State |-> ""]

DsInfo(name, label, size) ==
    [Name |-> name, Label |-> label, VersionID |-> "v0", State |-> "A",
     Checksum |-> "", ChecksumType |-> "DISABLED", MIMEType |-> "text/xml",
     Location |-> "loc", LocationType |-> "", ControlGroup |-> "M",
     Versionable |-> TRUE, Size |-> size]

ZeroDsInfo ==
    [Name |-> <<>>, Label |-> "", VersionID |-> "", State |-> "",
     Checksum |-> "", ChecksumType |-> "", MIMEType |-> "",
     Location |-> "", LocationType |-> "", ControlGroup |-> "",
     Versionable |-> FALSE, Size |-> 0]

DSentry(info, content, base64) ==
    [DsInfo |-> info, Content |-> content, ContentBase64 |-> base64]

FObject(info, items) == [ObjectInfo |-> info, DSitems |-> items]

\* the io.Reader handed to MakeDatastream / UpdateDatastream
NilSource == [kind |-> "nil", bytes |-> <<>>]
StringsReader(s) == [kind |-> "text", bytes |-> s]
BytesReader(b) == [kind |-> "raw", bytes |-> b]

\* one entry of the log of calls made on the remote
Call(op, pid, name, oinfo, info, source, res) ==
    [op |-> op, pid |-> pid, name |-> name, oinfo |-> oinfo, info |-> info,
     source |-> source, res |-> res]

\* ------------------------------------------------------------ remote store
\* A store maps every PID to [exists, info, ds]; ds maps the names of the
\* object's datastreams to [info, content]. Every remote call returns; the
\* k-th call of an operation fails with a transport error when k = failAt.
NoObject == [exists |-> FALSE, info |-> ZeroObjectInfo, ds |-> <<>>]

EmptyStore == [p \in PIDs |-> NoObject]

HasDs(st, pid, name) == st[pid].exists /\ name \in DOMAIN st[pid].ds

Outcome(n, failAt, ok) == IF n = failAt THEN ErrTransport ELSE ok

GetObjectInfo(st, pid, n, failAt) ==
    LET res == Outcome(n, failAt, IF st[pid].exists THEN ErrNil ELSE ErrNotFound)
    IN  [val |-> IF res = ErrNil THEN st[pid].info ELSE ZeroObjectInfo,
         err |-> res,
         call |-> Call("GetObjectInfo", pid, <<>>, ZeroObjectInfo, ZeroDsInfo, NilSource, res)]

\* the remote lists the names in an order of its own choosing
GetDatastreamList(st, pid, listing, n, failAt) ==
    LET res == Outcome(n, failAt, IF st[pid].exists THEN ErrNil ELSE ErrNotFound)
    IN  [val |-> IF res = ErrNil THEN listing ELSE <<>>,
         err |-> res,
         call |-> Call("GetDatastreamList", pid, <<>>, ZeroObjectInfo, ZeroDsInfo, NilSource, res)]

GetDatastreamInfo(st, pid, name, n, failAt) ==
    LET res == Outcome(n, failAt, IF HasDs(st, pid, name) THEN ErrNil ELSE ErrNotFound)
    IN  [val |-> IF res = ErrNil THEN st[pid].ds[name].info ELSE ZeroDsInfo,
         err |-> res,
         call |-> Call("GetDatastreamInfo", pid, name, ZeroObjectInfo, ZeroDsInfo, NilSource, res)]

GetDatastream(st, pid, name, n, failAt) ==
    LET res == Outcome(n, failAt, IF HasDs(st, pid, name) THEN ErrNil ELSE ErrNotFound)
    IN  [val |-> IF res = ErrNil THEN st[pid].ds[name].content ELSE <<>>,
         err |-> res,
         call |-> Call("GetDatastream", pid, name, ZeroObjectInfo, ZeroDsInfo, NilSource, res)]

MakeObject(st, oinfo, n, failAt) ==
    LET res == Outcome(n, failAt, ErrNil)
    IN  [store |-> IF res = ErrNil
                   THEN [st EXCEPT ![oinfo.PID] =
                            [exists |-> TRUE, info |-> oinfo, ds |-> <<>>]]
                   ELSE st,
         err |-> res,
         call |-> Call("MakeObject", oinfo.PID, <<>>, oinfo, ZeroDsInfo, NilSource, res)]

\* ds with the entry for name set to v, added when it is new
PutDs(ds, name, v) ==
    [k \in (DOMAIN ds) \cup {name} |-> IF k = name THEN v ELSE ds[k]]

MakeDatastream(st, pid, info, source, n, failAt) ==
    LET res == Outcome(n, failAt, ErrNil)
    IN  [store |-> IF res = ErrNil
                   THEN [st EXCEPT ![pid].ds =
                            PutDs(@, info.Name, [info |-> info, content |-> source.bytes])]
                   ELSE st,
         err |-> res,
         call |-> Call("MakeDatastream", pid, info.Name, ZeroObjectInfo, info, source, res)]

\* an update without a content source keeps the content the datastream has
UpdateDatastream(st, pid, info, source, n, failAt) ==
    LET res == Outcome(n, failAt, ErrNil)
        old == st[pid].ds[info.Name].content
    IN  [store |-> IF res = ErrNil
                   THEN [st EXCEPT ![pid].ds =
                            PutDs(@, info.Name,
                                  [info |-> info,
                                   content |-> IF source.kind = "nil" THEN old
                                               ELSE source.bytes])]
                   ELSE st,
         err |-> res,
         call |-> Call("UpdateDatastream", pid, info.Name, ZeroObjectInfo, info, source, res)]

\* ioutil.ReadAll(body) and body.Close()
ReadAll(pid, name, body, n, failAt) ==
    LET res == Outcome(n, failAt, ErrNil)
    IN  [val |-> IF res = ErrNil THEN body ELSE <<>>,
         err |-> IF res = ErrNil THEN ErrNil ELSE ErrRead,
         call |-> Call("ReadAll", pid, name, ZeroObjectInfo, ZeroDsInfo, NilSource,
                       IF res = ErrNil THEN ErrNil ELSE ErrRead)]

Close(pid, name) ==
    Call("Close", pid, name, ZeroObjectInfo, ZeroDsInfo, NilSource, ErrNil)

\* ---------------------------------------------------------- FetchOneObject
\* the text / raw decision, with the raw bytes kept beside the text
TranscodeKeepRaw(info, raw) ==
    IF Utf8Valid(raw) THEN DSentry(info, raw, raw) ELSE DSentry(info, <<>>, raw)

\* the text / raw decision for the bytes read
Transcode(info, raw) ==
    IF Utf8Valid(raw) THEN DSentry(info, raw, <<>>) ELSE DSentry(info, <<>>, raw)

\* the body is closed only after a read that worked
FetchEntryLeak(st, id, ds, n, failAt) ==
    LET i == GetDatastreamInfo(st, id, ds, n + 1, failAt)
        b == GetDatastream(st, id, ds, n + 2, failAt)
        r == ReadAll(id, ds, b.val, n + 3, failAt)
    IN  IF i.err # ErrNil
            THEN [entry |-> DSentry(ZeroDsInfo, <<>>, <<>>), err |-> i.err,
                  ops |-> <<i.call>>, n |-> n + 1]
        ELSE IF ~(i.val.Size > 0)
            THEN [entry |-> DSentry(i.val, <<>>, <<>>), err |-> ErrNil,
                  ops |-> <<i.call>>, n |-> n + 1]
        ELSE IF b.err # ErrNil
            THEN [entry |-> DSentry(i.val, <<>>, <<>>), err |-> b.err,
                  ops |-> <<i.call, b.call>>, n |-> n + 2]
        ELSE IF r.err # ErrNil
            THEN [entry |-> DSentry(i.val, <<>>, r.val), err |-> r.err,
                  ops |-> <<i.call, b.call, r.call>>, n |-> n + 3]
        ELSE [entry |-> Transcode(i.val, r.val), err |-> ErrNil,
              ops |-> <<i.call, b.call, r.call, Close(id, ds)>>, n |-> n + 3]

\* a failed read of the content is passed over and the entry kept
FetchEntryPassOver(st, id, ds, n, failAt) ==
    LET i == GetDatastreamInfo(st, id, ds, n + 1, failAt)
        b == GetDatastream(st, id, ds, n + 2, failAt)
        r == ReadAll(id, ds, b.val, n + 3, failAt)
    IN  IF i.err # ErrNil
            THEN [entry |-> DSentry(ZeroDsInfo, <<>>, <<>>), err |-> i.err,
                  ops |-> <<i.call>>, n |-> n + 1]
        ELSE IF ~(i.val.Size > 0)
            THEN [entry |-> DSentry(i.val, <<>>, <<>>), err |-> ErrNil,
                  ops |-> <<i.call>>, n |-> n + 1]
        ELSE IF b.err # ErrNil
            THEN [entry |-> DSentry(i.val, <<>>, <<>>), err |-> b.err,
                  ops |-> <<i.call, b.call>>, n |-> n + 2]
        ELSE [entry |-> Transcode(i.val, r.val), err |-> ErrNil,
              ops |-> <<i.call, b.call, r.call, Close(id, ds)>>, n |-> n + 3]

\* one pass of the loop over dsNames, after n remote calls
FetchEntry(st, id, ds, n, failAt) ==
    LET i == GetDatastreamInfo(st, id, ds, n + 1, failAt)
        b == GetDatastream(st, id, ds, n + 2, failAt)
        r == ReadAll(id, ds, b.val, n + 3, failAt)
    IN  IF i.err # ErrNil
            THEN [entry |-> DSentry(ZeroDsInfo, <<>>, <<>>), err |-> i.err,
                  ops |-> <<i.call>>, n |-> n + 1]
        ELSE IF ~(i.val.Size > 0)
            THEN [entry |-> DSentry(i.val, <<>>, <<>>), err |-> ErrNil,
                  ops |-> <<i.call>>, n |-> n + 1]
        ELSE IF b.err # ErrNil
            THEN [entry |-> DSentry(i.val, <<>>, <<>>), err |-> b.err,
                  ops |-> <<i.call, b.call>>, n |-> n + 2]
        ELSE IF r.err # ErrNil
            THEN [entry |-> DSentry(i.val, <<>>, r.val), err |-> r.err,
                  ops |-> <<i.call, b.call, r.call, Close(id, ds)>>, n |-> n + 3]
        ELSE [entry |-> Transcode(i.val, r.val), err |-> ErrNil,
              ops |-> <<i.call, b.call, r.call, Close(id, ds)>>, n |-> n + 3]

RECURSIVE FetchLoop(_, _, _, _, _, _, _)
FetchLoop(st, id, dsNames, n, failAt, result, ops) ==
    IF dsNames = <<>>
        THEN [obj |-> <<result>>, err |-> ErrNil, ops |-> ops]
    ELSE LET e == FetchEntry(st, id, Head(dsNames), n, failAt)
         IN  IF e.err # ErrNil
                 THEN [obj |-> <<>>, err |-> e.err, ops |-> ops \o e.ops]
             ELSE FetchLoop(st, id, Tail(dsNames), e.n, failAt,
                            [result EXCEPT !.DSitems = Append(@, e.entry)],
                            ops \o e.ops)

\* obj is <<>> for a nil *FObject, <<o>> for a pointer to o
FetchOneObject(st, id, listing, failAt) ==
    LET o == GetObjectInfo(st, id, 1, failAt)
        l == GetDatastreamList(st, id, listing, 2, failAt)
    IN  IF o.err # ErrNil
            THEN [obj |-> <<>>, err |-> o.err, ops |-> <<o.call>>]
        ELSE IF l.err # ErrNil
            THEN [obj |-> <<>>, err |-> l.err, ops |-> <<o.call, l.call>>]
        ELSE FetchLoop(st, id, SortStrings(l.val), 2, failAt,
                       FObject(o.val, <<>>), <<o.call, l.call>>)

\* --------------------------------------------------------- UploadOneObject
\* no datastream is special
SkipNothing(ds) == FALSE

SkipDatastream(ds) == ds.DsInfo.Name = DC

\* the raw bytes taken before the text
ChooseSourceRawFirst(ds) ==
    IF Len(ds.ContentBase64) > 0 THEN BytesReader(ds.ContentBase64)
    ELSE IF ds.Content # <<>> THEN StringsReader(ds.Content)
    ELSE NilSource

\* only the raw bytes are ever uploaded
ChooseSourceRawOnly(ds) ==
    IF Len(ds.ContentBase64) > 0 THEN BytesReader(ds.ContentBase64) ELSE NilSource

ChooseSource(ds) ==
    IF ds.Content # <<>> THEN StringsReader(ds.Content)
    ELSE IF Len(ds.ContentBase64) > 0 THEN BytesReader(ds.ContentBase64)
    ELSE NilSource

\* the probe's answer is not looked at: the datastream is always created
UploadEntryAlwaysMake(st, pid, ds, n, failAt) ==
    LET source == ChooseSource(ds)
        p == GetDatastreamInfo(st, pid, ds.DsInfo.Name, n + 1, failAt)
        m == MakeDatastream(st, pid, ds.DsInfo, source, n + 2, failAt)
    IN  IF p.err = ErrNotFound \/ p.err = ErrNil
            THEN [store |-> m.store, err |-> m.err, ops |-> <<p.call, m.call>>, n |-> n + 2]
        ELSE [store |-> st, err |-> p.err, ops |-> <<p.call>>, n |-> n + 1]

\* probe, then create or update, for one entry of DSitems, after n remote calls
UploadEntry(st, pid, ds, n, failAt) ==
    LET source == ChooseSource(ds)
        p == GetDatastreamInfo(st, pid, ds.DsInfo.Name, n + 1, failAt)
        m == MakeDatastream(st, pid, ds.DsInfo, source, n + 2, failAt)
        u == UpdateDatastream(st, pid, ds.DsInfo, source, n + 2, failAt)
    IN  IF p.err = ErrNotFound
            THEN [store |-> m.store, err |-> m.err, ops |-> <<p.call, m.call>>, n |-> n + 2]
        ELSE IF p.err = ErrNil
            THEN [store |-> u.store, err |-> u.err, ops |-> <<p.call, u.call>>, n |-> n + 2]
        ELSE [store |-> st, err |-> p.err, ops |-> <<p.call>>, n |-> n + 1]

RECURSIVE UploadLoop(_, _, _, _, _, _)
UploadLoop(st, pid, items, n, failAt, ops) ==
    IF items = <<>>
        THEN [store |-> st, err |-> ErrNil, ops |-> ops]
    ELSE IF SkipDatastream(Head(items))
        THEN UploadLoop(st, pid, Tail(items), n, failAt, ops)
    ELSE LET e == UploadEntry(st, pid, Head(items), n, failAt)
         IN  IF e.err # ErrNil
                 THEN [store |-> e.store, err |-> e.err, ops |-> ops \o e.ops]
             ELSE UploadLoop(e.store, pid, Tail(items), e.n, failAt, ops \o e.ops)

\* the object is created whether or not the probe found it
UploadOneObjectAlwaysMake(st, obj, failAt) ==
    LET pid == obj.ObjectInfo.PID
        g == GetObjectInfo(st, pid, 1, failAt)
        m == MakeObject(st, obj.ObjectInfo, 2, failAt)
    IN  IF g.err = ErrNotFound \/ g.err = ErrNil
            THEN IF m.err # ErrNil
                     THEN [store |-> m.store, err |-> m.err, ops |-> <<g.call, m.call>>]
                 ELSE UploadLoop(m.store, pid, obj.DSitems, 2, failAt, <<g.call, m.call>>)
        ELSE [store |-> st, err |-> g.err, ops |-> <<g.call>>]

UploadOneObject(st, obj, failAt) ==
    LET pid == obj.ObjectInfo.PID
        g == GetObjectInfo(st, pid, 1, failAt)
        m == MakeObject(st, obj.ObjectInfo, 2, failAt)
    IN  IF g.err = ErrNotFound
            THEN IF m.err # ErrNil
                     THEN [store |-> m.store, err |-> m.err, ops |-> <<g.call, m.call>>]
                 ELSE UploadLoop(m.store, pid, obj.DSitems, 2, failAt, <<g.call, m.call>>)
        ELSE IF g.err # ErrNil
            THEN [store |-> st, err |-> g.err, ops |-> <<g.call>>]
        ELSE UploadLoop(st, pid, obj.DSitems, 1, failAt, <<g.call>>)

\* ------------------------------------------------------------ ApplyPrefixes
\* the table with a key that other keys start with
PrefixesNested ==
    <<
      \* "info:fedora/und:": "und:"
      [k |-> <<105, 110, 102, 111, 58, 102, 101, 100, 111, 114, 97, 47, 117, 110, 100, 58>>,
       v |-> <<117, 110, 100, 58>>],
      \* "info:fedora/": "f:"
      [k |-> <<105, 110, 102, 111, 58, 102, 101, 100, 111, 114, 97, 47>>,
       v |-> <<102, 58>>],
      \* "http://purl.org/dc/terms/": "dc:"
      [k |-> <<104, 116, 116, 112, 58, 47, 47, 112, 117, 114, 108, 46, 111, 114, 103, 47, 100, 99, 47, 116, 101, 114, 109, 115, 47>>,
       v |-> <<100, 99, 58>>],
      \* "https://library.nd.edu/ns/terms/": "nd:"
      [k |-> <<104, 116, 116, 112, 115, 58, 47, 47, 108, 105, 98, 114, 97, 114, 121, 46, 110, 100, 46, 101, 100, 117, 47, 110, 115, 47, 116, 101, 114, 109, 115, 47>>,
       v |-> <<110, 100, 58>>],
      \* "http://purl.org/ontology/bibo/": "bibo:"
      [k |-> <<104, 116, 116, 112, 58, 47, 47, 112, 117, 114, 108, 46, 111, 114, 103, 47, 111, 110, 116, 111, 108, 111, 103, 121, 47, 98, 105, 98, 111, 47>>,
       v |-> <<98, 105, 98, 111, 58>>],
      \* "http://www.ndltd.org/standards/metadata/etdms/1.1/": "ms:"
      [k |-> <<104, 116, 116, 112, 58, 47, 47, 119, 119, 119, 46, 110, 100, 108, 116, 100, 46, 111, 114, 103, 47, 115, 116, 97, 110, 100, 97, 114, 100, 115, 47, 109, 101, 116, 97, 100, 97, 116, 97, 47, 101, 116, 100, 109, 115, 47, 49, 46, 49, 47>>,
       v |-> <<109, 115, 58>>],
      \* "http://purl.org/vra/": "vracore:"
      [k |-> <<104, 116, 116, 112, 58, 47, 47, 112, 117, 114, 108, 46, 111, 114, 103, 47, 118, 114, 97, 47>>,
       v |-> <<118, 114, 97, 99, 111, 114, 101, 58>>],
      \* "http://id.loc.gov/vocabulary/relators/": "mrel:"
      [k |-> <<104, 116, 116, 112, 58, 47, 47, 105, 100, 46, 108, 111, 99, 46, 103, 111, 118, 47, 118, 111, 99, 97, 98, 117, 108, 97, 114, 121, 47, 114, 101, 108, 97, 116, 111, 114, 115, 47>>,
       v |-> <<109, 114, 101, 108, 58>>],
      \* "http://www.ebu.ch/metadata/ontologies/ebucore/ebucore#": "ebucore:"
      [k |-> <<104, 116, 116, 112, 58, 47, 47, 119, 119, 119, 46, 101, 98, 117, 46, 99, 104, 47, 109, 101, 116, 97, 100, 97, 116, 97, 47, 111, 110, 116, 111, 108, 111, 103, 105, 101, 115, 47, 101, 98, 117, 99, 111, 114, 101, 47, 101, 98, 117, 99, 111, 114, 101, 35>>,
       v |-> <<101, 98, 117, 99, 111, 114, 101, 58>>],
      \* "http://xmlns.com/foaf/0.1/": "foaf:"
      [k |-> <<104, 116, 116, 112, 58, 47, 47, 120, 109, 108, 110, 115, 46, 99, 111, 109, 47, 102, 111, 97, 102, 47, 48, 46, 49, 47>>,
       v |-> <<102, 111, 97, 102, 58>>],
      \* "http://projecthydra.org/ns/relations#": "hydra:"
      [k |-> <<104, 116, 116, 112, 58, 47, 47, 112, 114, 111, 106, 101, 99, 116, 104, 121, 100, 114, 97, 46, 111, 114, 103, 47, 110, 115, 47, 114, 101, 108, 97, 116, 105, 111, 110, 115, 35>>,
       v |-> <<104, 121, 100, 114, 97, 58>>],
      \* "http://www.w3.org/2000/01/rdf-schema#": "rdfs:"
      [k |-> <<104, 116, 116, 112, 58, 47, 47, 119, 119, 119, 46, 119, 51, 46, 111, 114, 103, 47, 50, 48, 48, 48, 47, 48, 49, 47, 114, 100, 102, 45, 115, 99, 104, 101, 109, 97, 35>>,
       v |-> <<114, 100, 102, 115, 58>>],
      \* "http://purl.org/pav/": "pav:"
      [k |-> <<104, 116, 116, 112, 58, 47, 47, 112, 117, 114, 108, 46, 111, 114, 103, 47, 112, 97, 118, 47>>,
       v |-> <<112, 97, 118, 58>>]
    >>

\* the entries of the map Prefixes, in the order of the source text
Prefixes ==
    <<
      \* "info:fedora/und:": "und:"
      [k |-> <<105, 110, 102, 111, 58, 102, 101, 100, 111, 114, 97, 47, 117, 110, 100, 58>>,
       v |-> <<117, 110, 100, 58>>],
      \* "info:fedora/afmodel:": ""
      [k |-> <<105, 110, 102, 111, 58, 102, 101, 100, 111, 114, 97, 47, 97, 102, 109, 111, 100, 101, 108, 58>>,
       v |-> <<>>],
      \* "http://purl.org/dc/terms/": "dc:"
      [k |-> <<104, 116, 116, 112, 58, 47, 47, 112, 117, 114, 108, 46, 111, 114, 103, 47, 100, 99, 47, 116, 101, 114, 109, 115, 47>>,
       v |-> <<100, 99, 58>>],
      \* "https://library.nd.edu/ns/terms/": "nd:"
      [k |-> <<104, 116, 116, 112, 115, 58, 47, 47, 108, 105, 98, 114, 97, 114, 121, 46, 110, 100, 46, 101, 100, 117, 47, 110, 115, 47, 116, 101, 114, 109, 115, 47>>,
       v |-> <<110, 100, 58>>],
      \* "http://purl.org/ontology/bibo/": "bibo:"
      [k |-> <<104, 116, 116, 112, 58, 47, 47, 112, 117, 114, 108, 46, 111, 114, 103, 47, 111, 110, 116, 111, 108, 111, 103, 121, 47, 98, 105, 98, 111, 47>>,
       v |-> <<98, 105, 98, 111, 58>>],
      \* "http://www.ndltd.org/standards/metadata/etdms/1.1/": "ms:"
      [k |-> <<104, 116, 116, 112, 58, 47, 47, 119, 119, 119, 46, 110, 100, 108, 116, 100, 46, 111, 114, 103, 47, 115, 116, 97, 110, 100, 97, 114, 100, 115, 47, 109, 101, 116, 97, 100, 97, 116, 97, 47, 101, 116, 100, 109, 115, 47, 49, 46, 49, 47>>,
       v |-> <<109, 115, 58>>],
      \* "http://purl.org/vra/": "vracore:"
      [k |-> <<104, 116, 116, 112, 58, 47, 47, 112, 117, 114, 108, 46, 111, 114, 103, 47, 118, 114, 97, 47>>,
       v |-> <<118, 114, 97, 99, 111, 114, 101, 58>>],
      \* "http://id.loc.gov/vocabulary/relators/": "mrel:"
      [k |-> <<104, 116, 116, 112, 58, 47, 47, 105, 100, 46, 108, 111, 99, 46, 103, 111, 118, 47, 118, 111, 99, 97, 98, 117, 108, 97, 114, 121, 47, 114, 101, 108, 97, 116, 111, 114, 115, 47>>,
       v |-> <<109, 114, 101, 108, 58>>],
      \* "http://www.ebu.ch/metadata/ontologies/ebucore/ebucore#": "ebucore:"
      [k |-> <<104, 116, 116, 112, 58, 47, 47, 119, 119, 119, 46, 101, 98, 117, 46, 99, 104, 47, 109, 101, 116, 97, 100, 97, 116, 97, 47, 111, 110, 116, 111, 108, 111, 103, 105, 101, 115, 47, 101, 98, 117, 99, 111, 114, 101, 47, 101, 98, 117, 99, 111, 114, 101, 35>>,
       v |-> <<101, 98, 117, 99, 111, 114, 101, 58>>],
      \* "http://xmlns.com/foaf/0.1/": "foaf:"
      [k |-> <<104, 116, 116, 112, 58, 47, 47, 120, 109, 108, 110, 115, 46, 99, 111, 109, 47, 102, 111, 97, 102, 47, 48, 46, 49, 47>>,
       v |-> <<102, 111, 97, 102, 58>>],
      \* "http://projecthydra.org/ns/relations#": "hydra:"
      [k |-> <<104, 116, 116, 112, 58, 47, 47, 112, 114, 111, 106, 101, 99, 116, 104, 121, 100, 114, 97, 46, 111, 114, 103, 47, 110, 115, 47, 114, 101, 108, 97, 116, 105, 111, 110, 115, 35>>,
       v |-> <<104, 121, 100, 114, 97, 58>>],
      \* "http://www.w3.org/2000/01/rdf-schema#": "rdfs:"
      [k |-> <<104, 116, 116, 112, 58, 47, 47, 119, 119, 119, 46, 119, 51, 46, 111, 114, 103, 47, 50, 48, 48, 48, 47, 48, 49, 47, 114, 100, 102, 45, 115, 99, 104, 101, 109, 97, 35>>,
       v |-> <<114, 100, 102, 115, 58>>],
      \* "http://purl.org/pav/": "pav:"
      [k |-> <<104, 116, 116, 112, 58, 47, 47, 112, 117, 114, 108, 46, 111, 114, 103, 47, 112, 97, 118, 47>>,
       v |-> <<112, 97, 118, 58>>]
    >>

HasPrefix(s, k) == Len(s) >= Len(k) /\ SubSeq(s, 1, Len(k)) = k

TrimPrefix(s, k) == IF HasPrefix(s, k) THEN SubSeq(s, Len(k) + 1, Len(s)) ELSE s

\* the short form is applied to what is left as well, as long as a key matches
RECURSIVE ApplyFromAgain(_, _, _)
ApplyFromAgain(s, order, i) ==
    IF i > Len(order) THEN s
    ELSE LET e == Prefixes[order[i]]
         IN  IF HasPrefix(s, e.k) /\ Len(e.k) > 0
                 THEN e.v \o ApplyFromAgain(TrimPrefix(s, e.k), order, 1)
             ELSE ApplyFromAgain(s, order, i + 1)

\* the loop of ApplyPrefixes from the i-th entry the range visits
RECURSIVE ApplyFrom(_, _, _)
ApplyFrom(s, order, i) ==
    IF i > Len(order) THEN s
    ELSE LET e == Prefixes[order[i]]
         IN  IF HasPrefix(s, e.k) THEN e.v \o TrimPrefix(s, e.k)
             ELSE ApplyFrom(s, order, i + 1)

\* order is the order in which the range over the map visits the entries
ApplyPrefixes(s, order) == ApplyFrom(s, order, 1)

\* orders of iteration: as written, reversed, and each rotation of the two
Rotate(seq, r) == [i \in 1..Len(seq) |-> seq[((i + r - 1) % Len(seq)) + 1]]
Forward == [i \in 1..Len(Prefixes) |-> i]
Backward == [i \in 1..Len(Prefixes) |-> Len(Prefixes) + 1 - i]
MapOrders ==
    {Rotate(Forward, r) : r \in 0..(Len(Prefixes) - 1)}
        \cup {Rotate(Backward, r) : r \in 0..(Len(Prefixes) - 1)}

\* ----------------------------------------------------- metadata normalizer
\* the string literals of the extractors, as bytes
S ==
    [RelsExt |->
         <<82, 69, 76, 83, 45, 69, 88, 84>>,  \* "RELS-EXT"
     Properties |->
         <<112, 114, 111, 112, 101, 114, 116, 105, 101, 115>>,  \* "properties"
     RightsMetadata |->
         <<114, 105, 103, 104, 116, 115, 77, 101, 116, 97, 100, 97, 116, 97>>,  \* "rightsMetadata"
     DescMetadata |->
         <<100, 101, 115, 99, 77, 101, 116, 97, 100, 97, 116, 97>>,  \* "descMetadata"
     Content |->
         <<99, 111, 110, 116, 101, 110, 116>>,  \* "content"
     Thumbnail |->
         <<116, 104, 117, 109, 98, 110, 97, 105, 108>>,  \* "thumbnail"
     BendoItem |->
         <<98, 101, 110, 100, 111, 45, 105, 116, 101, 109>>,  \* "bendo-item"
     HasModel |->
         <<104, 97, 115, 77, 111, 100, 101, 108>>,  \* "hasModel"
     IsMemberOfCollection |->
         <<105, 115, 77, 101, 109, 98, 101, 114, 79, 102, 67, 111, 108, 108, 101, 99, 116, 105, 111, 110>>,  \* "isMemberOfCollection"
     IsPartOf |->
         <<105, 115, 80, 97, 114, 116, 79, 102>>,  \* "isPartOf"
     HasEditor |->
         <<104, 97, 115, 69, 100, 105, 116, 111, 114>>,  \* "hasEditor"
     HasEditorGroup |->
         <<104, 97, 115, 69, 100, 105, 116, 111, 114, 71, 114, 111, 117, 112>>,  \* "hasEditorGroup"
     AfModel |->
         <<97, 102, 45, 109, 111, 100, 101, 108>>,  \* "af-model"
     EditPerson |->
         <<101, 100, 105, 116, 45, 112, 101, 114, 115, 111, 110>>,  \* "edit-person"
     EditGroup |->
         <<101, 100, 105, 116, 45, 103, 114, 111, 117, 112>>,  \* "edit-group"
     ReadPerson |->
         <<114, 101, 97, 100, 45, 112, 101, 114, 115, 111, 110>>,  \* "read-person"
     ReadGroup |->
         <<114, 101, 97, 100, 45, 103, 114, 111, 117, 112>>,  \* "read-group"
     EmbargoDate |->
         <<101, 109, 98, 97, 114, 103, 111, 45, 100, 97, 116, 101>>,  \* "embargo-date"
     Read |->
         <<114, 101, 97, 100>>,  \* "read"
     Edit |->
         <<101, 100, 105, 116>>,  \* "edit"
     Discover |->
         <<100, 105, 115, 99, 111, 118, 101, 114>>,  \* "discover"
     Depositor |->
         <<100, 101, 112, 111, 115, 105, 116, 111, 114>>,  \* "depositor"
     Owner |->
         <<111, 119, 110, 101, 114>>,  \* "owner"
     Representative |->
         <<114, 101, 112, 114, 101, 115, 101, 110, 116, 97, 116, 105, 118, 101>>,  \* "representative"
     Filename |->
         <<102, 105, 108, 101, 110, 97, 109, 101>>,  \* "filename"
     ChecksumMd5 |->
         <<99, 104, 101, 99, 107, 115, 117, 109, 45, 109, 100, 53>>,  \* "checksum-md5"
     MimeType |->
         <<109, 105, 109, 101, 45, 116, 121, 112, 101>>,  \* "mime-type"
     FileLocation |->
         <<102, 105, 108, 101, 45, 108, 111, 99, 97, 116, 105, 111, 110>>,  \* "file-location"
     Slash |->
         <<47>>]  \* "/"

\* CurateItem.Add and Add3 on the list Meta
Add3(meta, subject, predicate, value) ==
    IF value = <<>> THEN meta
    ELSE Append(meta, [Subject |-> subject, Predicate |-> predicate, Object |-> value])

Add(meta, pid, predicate, value) == Add3(meta, pid, predicate, value)

\* a call made by an extractor, with the document the remote served
CurateCall(op, pid, name, doc, res) ==
    [op |-> op, pid |-> pid, name |-> name, doc |-> doc, res |-> res]

NoDoc == [none |-> TRUE]

\* What the remote answers for one stream: fetch is the error of the call,
\* doc what the stream holds. A document is what its decoder makes of the
\* bytes: the parts decoded, and bad when the text is malformed after them.
Answer(fetch, doc) == [fetch |-> fetch, doc |-> doc]

\* the predicate label of a RELS-EXT pair
RelsLabel(p, order) ==
    IF p.Local = S.HasModel THEN S.AfModel
    ELSE IF p.Local = S.IsMemberOfCollection THEN S.IsMemberOfCollection
    ELSE IF p.Local = S.IsPartOf THEN S.IsPartOf
    ELSE IF p.Local = S.HasEditor THEN S.EditPerson
    ELSE IF p.Local = S.HasEditorGroup THEN S.EditGroup
    ELSE ApplyPrefixes(p.Space \o p.Local, order)

RECURSIVE AddPairs(_, _, _, _)
AddPairs(meta, pid, ps, order) ==
    IF ps = <<>> THEN meta
    ELSE AddPairs(Add(meta, pid, RelsLabel(Head(ps), order),
                      ApplyPrefixes(Head(ps).V, order)),
                  pid, Tail(ps), order)

\* each extractor gives the Meta it leaves, the error it returns and the
\* calls it made; a is the remote's answer for its stream
ReadRelsExt(a, id, meta, order) ==
    LET open == CurateCall("GetDatastream", id, S.RelsExt, a.doc, a.fetch)
        dec == CurateCall("Decode", id, S.RelsExt, NoDoc,
                          IF a.doc.bad THEN ErrDecode ELSE ErrNil)
        close == CurateCall("Close", id, S.RelsExt, NoDoc, ErrNil)
    IN  IF a.fetch # ErrNil
            THEN [meta |-> meta, err |-> a.fetch, ops |-> <<open>>]
        ELSE [meta |-> AddPairs(meta, id, a.doc.P, order), err |-> ErrNil,
              ops |-> <<open, dec, close, close>>]

\* ReadProperties adding what was decoded before looking at the error
ReadPropertiesLenient(a, id, meta, order) ==
    LET open == CurateCall("GetDatastream", id, S.Properties, a.doc, a.fetch)
        dec == CurateCall("Decode", id, S.Properties, NoDoc,
                          IF a.doc.bad THEN ErrDecode ELSE ErrNil)
        close == CurateCall("Close", id, S.Properties, NoDoc, ErrNil)
    IN  IF a.fetch # ErrNil
            THEN [meta |-> meta, err |-> a.fetch, ops |-> <<open>>]
        ELSE [meta |-> Add(Add(Add(meta, id, S.Depositor, a.doc.Depositor),
                               id, S.Owner, a.doc.Owner),
                           id, S.Representative, a.doc.Representative),
              err |-> IF a.doc.bad THEN ErrDecode ELSE ErrNil,
              ops |-> <<open, dec, close>>]

ReadProperties(a, id, meta, order) ==
    LET open == CurateCall("GetDatastream", id, S.Properties, a.doc, a.fetch)
        dec == CurateCall("Decode", id, S.Properties, NoDoc,
                          IF a.doc.bad THEN ErrDecode ELSE ErrNil)
        close == CurateCall("Close", id, S.Properties, NoDoc, ErrNil)
    IN  IF a.fetch # ErrNil
            THEN [meta |-> meta, err |-> a.fetch, ops |-> <<open>>]
        ELSE IF a.doc.bad
            THEN [meta |-> meta, err |-> ErrDecode, ops |-> <<open, dec, close>>]
        ELSE [meta |-> Add(Add(Add(meta, id, S.Depositor, a.doc.Depositor),
                               id, S.Owner, a.doc.Owner),
                           id, S.Representative, a.doc.Representative),
              err |-> ErrNil, ops |-> <<open, dec, close>>]

RECURSIVE AddAll(_, _, _, _)
AddAll(meta, pid, label, values) ==
    IF values = <<>> THEN meta
    ELSE AddAll(Add(meta, pid, label, Head(values)), pid, label, Tail(values))

\* every access block counts, whatever its type
AddAccessAnyType(meta, pid, access) ==
    LET edit == access.Type = S.Edit
    IN  AddAll(AddAll(meta, pid, IF edit THEN S.EditGroup ELSE S.ReadGroup, access.Groups),
               pid, IF edit THEN S.EditPerson ELSE S.ReadPerson, access.Persons)

\* one pass of the loop over v.Access
AddAccess(meta, pid, access) ==
    IF access.Type = S.Read
        THEN AddAll(AddAll(meta, pid, S.ReadGroup, access.Groups),
                    pid, S.ReadPerson, access.Persons)
    ELSE IF access.Type = S.Edit
        THEN AddAll(AddAll(meta, pid, S.EditGroup, access.Groups),
                    pid, S.EditPerson, access.Persons)
    ELSE meta

RECURSIVE AddAccesses(_, _, _)
AddAccesses(meta, pid, as) ==
    IF as = <<>> THEN meta
    ELSE AddAccesses(AddAccess(meta, pid, Head(as)), pid, Tail(as))

ReadRightsMetadata(a, id, meta, order) ==
    LET open == CurateCall("GetDatastream", id, S.RightsMetadata, a.doc, a.fetch)
        dec == CurateCall("Decode", id, S.RightsMetadata, NoDoc,
                          IF a.doc.bad THEN ErrDecode ELSE ErrNil)
        close == CurateCall("Close", id, S.RightsMetadata, NoDoc, ErrNil)
    IN  IF a.fetch # ErrNil
            THEN [meta |-> meta, err |-> a.fetch, ops |-> <<open>>]
        ELSE IF a.doc.bad
            THEN [meta |-> meta, err |-> ErrDecode, ops |-> <<open, dec, close>>]
        ELSE [meta |-> AddAccesses(Add(meta, id, S.EmbargoDate, a.doc.Embargo),
                                   id, a.doc.Access),
              err |-> ErrNil, ops |-> <<open, dec, close>>]

\* the compacted subject as it comes, without the owner in front
DescSubjectUnscoped(id, subj, order) == ApplyPrefixes(subj, order)

\* the subject of a statement of descMetadata
DescSubject(id, subj, order) ==
    LET subject == ApplyPrefixes(subj, order)
    IN  IF subject # id THEN id \o S.Slash \o subject ELSE subject

RECURSIVE AddStatements(_, _, _, _)
AddStatements(meta, id, ts, order) ==
    IF ts = <<>> THEN meta
    ELSE AddStatements(Add3(meta, DescSubject(id, Head(ts).Subj, order),
                            ApplyPrefixes(Head(ts).Pred, order),
                            ApplyPrefixes(Head(ts).Obj, order)),
                       id, Tail(ts), order)

ReadDescMetadata(a, id, meta, order) ==
    LET open == CurateCall("GetDatastream", id, S.DescMetadata, a.doc, a.fetch)
        decs == [i \in 1..Len(a.doc.triples) |->
                    CurateCall("Decode", id, S.DescMetadata, NoDoc, ErrNil)]
        last == CurateCall("Decode", id, S.DescMetadata, NoDoc,
                           IF a.doc.bad THEN ErrDecode ELSE "EOF")
        close == CurateCall("Close", id, S.DescMetadata, NoDoc, ErrNil)
    IN  IF a.fetch # ErrNil
            THEN [meta |-> meta, err |-> a.fetch, ops |-> <<open>>]
        ELSE [meta |-> AddStatements(meta, id, a.doc.triples, order),
              err |-> IF a.doc.bad THEN ErrDecode ELSE ErrNil,
              ops |-> <<open>> \o decs \o <<last, close>>]

ReadContent(a, id, meta, order) ==
    LET probe == CurateCall("GetDatastreamInfo", id, S.Content, a.doc, a.fetch)
    IN  IF a.fetch # ErrNil
            THEN [meta |-> meta, err |-> a.fetch, ops |-> <<probe>>]
        ELSE [meta |-> Add(Add(Add(Add(meta, id, S.Filename, a.doc.Label),
                                   id, S.ChecksumMd5, a.doc.Checksum),
                               id, S.MimeType, a.doc.MIMEType),
                           id, S.FileLocation, a.doc.Location),
              err |-> ErrNil, ops |-> <<probe>>]

ReadThumbnail(a, id, meta, order) ==
    LET probe == CurateCall("GetDatastreamInfo", id, S.Thumbnail, a.doc, a.fetch)
    IN  IF a.fetch # ErrNil
            THEN [meta |-> meta, err |-> a.fetch, ops |-> <<probe>>]
        ELSE [meta |-> Add(meta, id, S.Thumbnail, a.doc.Location),
              err |-> ErrNil, ops |-> <<probe>>]

\* a.doc.bad: reading the body fails
ReadBendoItem(a, id, meta, order) ==
    LET open == CurateCall("GetDatastream", id, S.BendoItem, a.doc, a.fetch)
        read == CurateCall("ReadAll", id, S.BendoItem, NoDoc,
                           IF a.doc.bad THEN ErrRead ELSE ErrNil)
        close == CurateCall("Close", id, S.BendoItem, NoDoc, ErrNil)
    IN  IF a.fetch # ErrNil
            THEN [meta |-> meta, err |-> a.fetch, ops |-> <<open>>]
        ELSE IF a.doc.bad
            THEN [meta |-> meta, err |-> ErrRead, ops |-> <<open, read, close>>]
        ELSE [meta |-> Add(meta, id, S.BendoItem, a.doc.bytes),
              err |-> ErrNil, ops |-> <<open, read, close>>]

\* ------------------------------------------------------------------- state
VARIABLES
    cmd,      \* what is run: "dump", "load" (main), "roundtrip", "upload"
    pc,       \* the position of the running function
    store,    \* the remote store main talks to; the source of a round trip
    target,   \* the store UploadOneObject writes when run on its own
    ids,      \* DumpList's id list
    idx,      \* the number of ids DumpList has taken from the list
    first,    \* DumpList's first
    out,      \* what has been written to out
    diag,     \* what has been written to os.Stderr
    results,  \* the error of each FetchOneObject call of DumpList, in order
    held,     \* the FObject values that are live
    input,    \* the JSON text LoadList reads: [open, elems, close]
    pos,      \* the number of array elements the decoder has consumed
    err,      \* the err of the running function
    ret,      \* LoadList's return value, "running" before it returns
    ops       \* the calls made on the remote, in order

vars == <<cmd, pc, store, target, ids, idx, first, out, diag, results, held,
          input, pos, err, ret, ops>>

NoInput == [open |-> "[", elems |-> <<>>, close |-> "]"]

\* ------------------------------------------------- the transcoder on its own
\* An object of the source store: DC is the stream Fedora keeps itself, the
\* other streams hold any bytes; Size is the length of the content.
StoredDs(name, content) ==
    [info |-> DsInfo(name, "stored", Len(content)), content |-> content]

SourceObjects ==
    {[exists |-> TRUE, info |-> ObjectInfo(PidA, "source"),
      ds |-> [n \in present |-> StoredDs(n, IF n = DC THEN <<65>> ELSE c[n])]] :
        present \in SUBSET Names,
        c \in [{dcLower, DName} -> ByteSeqs]}

\* entries as a JSON file can hold them: any name, any pair of contents
UploadEntries ==
    {DSentry(DsInfo(n, "decoded", Len(t) + Len(b)), t, b) :
        n \in Names, t \in {<<>>, <<65>>}, b \in {<<>>, <<195>>}}

UploadObjects ==
    {FObject(ObjectInfo(PidA, "decoded"), items) :
        items \in SeqsUpTo(UploadEntries, MaxItems)}

TargetObjects ==
    {NoObject} \cup
    {[exists |-> TRUE, info |-> ObjectInfo(PidA, "stored"),
      ds |-> [n \in present |-> StoredDs(n, <<169>>)]] :
        present \in {{}, {dcLower}, Names}}

MaxFetchCalls == 2 + 3 * Cardinality(Names)
MaxUploadCalls == 2 + 2 * MaxItems

ObjInit ==
    /\ cmd \in {"roundtrip", "upload"}
    /\ IF cmd = "roundtrip"
           THEN /\ pc = "fetch"
                /\ \E o \in SourceObjects : store = [EmptyStore EXCEPT ![PidA] = o]
                /\ target = EmptyStore
                /\ ids \in {<<PidA>>, <<PidB>>}
                /\ held = <<>>
           ELSE /\ pc = "upload"
                /\ store = EmptyStore
                /\ \E o \in TargetObjects : target = [EmptyStore EXCEPT ![PidA] = o]
                /\ ids = <<>>
                /\ \E o \in UploadObjects : held = <<o>>
    /\ idx = 0
    /\ first = TRUE
    /\ out = <<>>
    /\ diag = <<>>
    /\ results = <<>>
    /\ input = NoInput
    /\ pos = 0
    /\ err = ErrNil
    /\ ret = "running"
    /\ ops = <<>>

ObjFetch ==
    /\ pc = "fetch"
    /\ \E listing \in Perms(DOMAIN store[ids[1]].ds), failAt \in 0..MaxFetchCalls :
          LET r == FetchOneObject(store, ids[1], listing, failAt)
          IN  /\ held' = r.obj
              /\ err' = r.err
              /\ ops' = r.ops
              /\ pc' = IF r.err = ErrNil THEN "upload" ELSE "done"
    /\ UNCHANGED <<cmd, store, target, ids, idx, first, out, diag, results, input, pos, ret>>

ObjUpload ==
    /\ pc = "upload"
    /\ \E failAt \in 0..MaxUploadCalls :
          LET r == UploadOneObject(target, held[1], failAt)
          IN  /\ target' = r.store
              /\ err' = r.err
              /\ ops' = ops \o r.ops
              /\ pc' = "done"
    /\ UNCHANGED <<cmd, store, ids, idx, first, out, diag, results, held, input, pos, ret>>

ObjNext == ObjFetch \/ ObjUpload

SpecObj == ObjInit /\ [][ObjNext]_vars

\* ------------------------------------------------- ApplyPrefixes on its own
PrefixKeys == {Prefixes[i].k : i \in DOMAIN Prefixes}

\* 'x' and ':'
TailBytes == {120, 58}

\* what follows a key: a few bytes, or text that is itself a key
Tails == SeqsUpTo(TailBytes, MaxTailLen) \cup PrefixKeys

\* strings that start with a key, and strings that start with none: a key cut
\* short, a key after another byte, the tails alone
PrefixInputs ==
    {k \o t : k \in PrefixKeys, t \in Tails}
        \cup {SubSeq(k, 1, Len(k) - 1) : k \in PrefixKeys}
        \cup {<<120>> \o k : k \in PrefixKeys}
        \cup SeqsUpTo(TailBytes, MaxTailLen)

PrefixInit ==
    /\ cmd = "prefix"
    /\ pc = "apply"
    /\ input \in PrefixInputs
    /\ store = EmptyStore
    /\ target = EmptyStore
    /\ ids = <<>>
    /\ idx = 0
    /\ first = TRUE
    /\ out = <<>>
    /\ diag = <<>>
    /\ results = <<>>
    /\ held = <<>>
    /\ pos = 0
    /\ err = ErrNil
    /\ ret = "running"
    /\ ops = <<>>

PrefixApply ==
    /\ cmd = "prefix" /\ pc = "apply"
    /\ \E order \in MapOrders : out' = ApplyPrefixes(input, order)
    /\ pc' = "done"
    /\ UNCHANGED <<cmd, store, target, ids, idx, first, diag, results, held, input, pos, err, ret, ops>>

PrefixNext == PrefixApply

SpecPrefix == PrefixInit /\ [][PrefixNext]_vars

\* --------------------------------------------------------------- main: dump
\* what is written to out: the brackets and commas DumpList formats itself,
\* and one token for each value handed to enc.Encode (obj is <<>> for nil)
Punct(t) == [tok |-> t, obj |-> <<>>]
Encoded(ptr) == [tok |-> "elem", obj |-> ptr]

\* a line on os.Stderr: what it is about and the identifier and error it shows
Line(kind, id, e) == [kind |-> kind, id |-> id, err |-> e]

\* the objects of the store main runs against
StoreA ==
    [exists |-> TRUE, info |-> ObjectInfo(PidA, "stored"),
     ds |-> [n \in {dcLower} |-> StoredDs(n, <<65>>)]]

StoreB ==
    [exists |-> TRUE, info |-> ObjectInfo(PidB, "stored"),
     ds |-> [n \in {DC} |-> StoredDs(n, <<>>)]]

DumpStore == [EmptyStore EXCEPT ![PidA] = StoreA, ![PidB] = StoreB]
LoadStores == {EmptyStore, [EmptyStore EXCEPT ![PidA] = StoreA]}

\* the array elements of the JSON text: a value that decodes to obj, or a
\* malformed one
GoodElem(obj) == [valid |-> TRUE, obj |-> obj]
BadElem == [valid |-> FALSE, obj |-> FObject(ZeroObjectInfo, <<>>)]

LoadElems ==
    {GoodElem(FObject(ObjectInfo(PidA, "decoded"),
                      <<DSentry(DsInfo(DC, "decoded", 1), <<65>>, <<>>),
                        DSentry(DsInfo(dcLower, "decoded", 1), <<>>, <<195>>)>>)),
     GoodElem(FObject(ObjectInfo(PidB, "decoded"),
                      <<DSentry(DsInfo(DName, "decoded", 0), <<>>, <<>>)>>)),
     BadElem}

Init ==
    /\ cmd \in {"dump", "load"}
    /\ pc = "start"
    /\ IF cmd = "dump"
           THEN /\ store = DumpStore
                /\ ids \in SeqsUpTo(PIDs, MaxIds)
                /\ input = NoInput
           ELSE /\ store \in LoadStores
                /\ ids = <<>>
                /\ input \in [open : {"[", "{", "err"},
                              elems : SeqsUpTo(LoadElems, MaxElems),
                              close : {"]", "}", "err"}]
    /\ target = EmptyStore
    /\ idx = 0
    /\ first = TRUE
    /\ out = <<>>
    /\ diag = <<>>
    /\ results = <<>>
    /\ held = <<>>
    /\ pos = 0
    /\ err = ErrNil
    /\ ret = "running"
    /\ ops = <<>>

\* the separator written before the fetch of an id
Separator(isFirst) == IF ~isFirst THEN <<Punct(",")>> ELSE <<>>

\* where DumpList goes when a fetch fails: it stops
AfterFetchErrorStop == "done"

\* where DumpList goes when a fetch fails: it falls through to enc.Encode
AfterFetchErrorEncode == "encode"

\* where DumpList goes when a fetch fails: continue
AfterFetchError == "loop"

DumpOpen ==
    /\ cmd = "dump" /\ pc = "start"
    /\ out' = <<Punct("[")>>
    /\ first' = TRUE
    /\ pc' = "loop"
    /\ UNCHANGED <<cmd, store, target, ids, idx, diag, results, held, input, pos, err, ret, ops>>

DumpFetch ==
    /\ cmd = "dump" /\ pc = "loop" /\ idx < Len(ids)
    /\ LET id == ids[idx + 1]
       IN  \E listing \in Perms(DOMAIN store[id].ds), failAt \in 0..MaxFetchCalls :
              LET r == FetchOneObject(store, id, listing, failAt)
              IN  /\ out' = out \o Separator(first)
                  /\ first' = FALSE
                  /\ idx' = idx + 1
                  /\ err' = r.err
                  /\ results' = Append(results, r.err)
                  /\ ops' = ops \o r.ops
                  /\ held' = held \o r.obj
                  /\ IF r.err # ErrNil
                         THEN /\ diag' = diag \o <<Line("dumping", id, ErrNil),
                                                   Line("error", id, r.err)>>
                              /\ pc' = AfterFetchError
                         ELSE /\ diag' = Append(diag, Line("dumping", id, ErrNil))
                              /\ pc' = "encode"
    /\ UNCHANGED <<cmd, store, target, ids, input, pos, ret>>

DumpEncode ==
    /\ cmd = "dump" /\ pc = "encode"
    /\ out' = Append(out, Encoded(held))
    /\ held' = <<>>
    /\ pc' = "loop"
    /\ UNCHANGED <<cmd, store, target, ids, idx, first, diag, results, input, pos, err, ret, ops>>

DumpClose ==
    /\ cmd = "dump" /\ pc = "loop" /\ idx = Len(ids)
    /\ out' = Append(out, Punct("]"))
    /\ pc' = "done"
    /\ UNCHANGED <<cmd, store, target, ids, idx, first, diag, results, held, input, pos, err, ret, ops>>

\* --------------------------------------------------------------- main: load
\* where LoadList goes when UploadOneObject fails: on to the next element
AfterUploadErrorContinue == "more"

\* where LoadList goes when UploadOneObject fails: return err
AfterUploadError == "done"

\* where LoadList goes with a decoded value: back to decode the next one
AfterDecodeMore == "more"

\* where LoadList goes with a decoded value: to UploadOneObject
AfterDecode == "upload"

\* dec.Token() for the opening bracket: any delimiter that opens is a token
LoadOpen ==
    /\ cmd = "load" /\ pc = "start"
    /\ IF input.open \in {"[", "{"}
           THEN /\ pc' = "more"
                /\ UNCHANGED <<err, ret>>
           ELSE /\ err' = ErrDecode
                /\ ret' = ErrDecode
                /\ pc' = "done"
    /\ UNCHANGED <<cmd, store, target, ids, idx, first, out, diag, results, held, input, pos, ops>>

\* dec.More() is true: dec.Decode(&obj), which takes a value only where one
\* may stand, and that is not after an opening brace
LoadDecode ==
    /\ cmd = "load" /\ pc = "more" /\ pos < Len(input.elems)
    /\ LET e == input.elems[pos + 1]
       IN  /\ pos' = pos + 1
           /\ IF e.valid /\ input.open = "["
                  THEN /\ held' = Append(held, e.obj)
                       /\ err' = ErrNil
                       /\ diag' = Append(diag, Line("loading", e.obj.ObjectInfo.PID, ErrNil))
                       /\ pc' = AfterDecode
                       /\ UNCHANGED ret
                  ELSE /\ err' = ErrDecode
                       /\ diag' = Append(diag, Line("error", <<>>, ErrDecode))
                       /\ ret' = ErrDecode
                       /\ pc' = "done"
                       /\ UNCHANGED held
    /\ UNCHANGED <<cmd, store, target, ids, idx, first, out, results, input, ops>>

LoadUpload ==
    /\ cmd = "load" /\ pc = "upload"
    /\ \E failAt \in 0..MaxUploadCalls :
          LET r == UploadOneObject(store, held[1], failAt)
          IN  /\ store' = r.store
              /\ ops' = ops \o r.ops
              /\ err' = r.err
              /\ held' = Tail(held)
              /\ IF r.err # ErrNil
                     THEN /\ diag' = Append(diag, Line("error", <<>>, r.err))
                          /\ pc' = AfterUploadError
                          /\ ret' = IF AfterUploadError = "done" THEN r.err ELSE ret
                     ELSE /\ pc' = "more"
                          /\ UNCHANGED <<diag, ret>>
    /\ UNCHANGED <<cmd, target, ids, idx, first, out, results, input, pos>>

\* the delimiter that closes what the delimiter open has opened
Matching(open) == IF open = "[" THEN "]" ELSE "}"

\* dec.More() is false: dec.Token() for the closing bracket
LoadClose ==
    /\ cmd = "load" /\ pc = "more" /\ pos = Len(input.elems)
    /\ err' = IF input.close = Matching(input.open) THEN ErrNil ELSE ErrDecode
    /\ ret' = err'
    /\ pc' = "done"
    /\ UNCHANGED <<cmd, store, target, ids, idx, first, out, diag, results, held, input, pos, ops>>

Next ==
    \/ DumpOpen
    \/ DumpFetch
    \/ DumpEncode
    \/ DumpClose
    \/ LoadOpen
    \/ LoadDecode
    \/ LoadUpload
    \/ LoadClose

Spec == Init /\ [][Next]_vars

\* main runs DumpList or LoadList to its end: every step that can be taken is
FairSpec == Spec /\ WF_vars(Next)


\* ------------------------------------------------- main: the item command
\* the one identifier the normalizer runs on, "und:x"
CuratePid == Prefixes[1].v \o <<120>>

\* values found in the streams
vA == <<97>>
vB == <<98>>
vG == <<103>>
vLines == <<98, 10>>

RelsDocs ==
    LET model == [Space |-> Prefixes[1].k, Local |-> S.HasModel, V |-> Prefixes[2].k \o vA]
        editor == [Space |-> Prefixes[11].k, Local |-> S.HasEditor, V |-> Prefixes[1].k \o vB]
        other == [Space |-> Prefixes[11].k, Local |-> vG, V |-> vA]
    IN  {[P |-> <<model>>, bad |-> FALSE],
         [P |-> <<editor, other>>, bad |-> FALSE],
         [P |-> <<editor>>, bad |-> TRUE]}

PropertiesDocs ==
    {[Depositor |-> vA, Owner |-> <<>>, Representative |-> vB, bad |-> b] :
        b \in BOOLEAN}

AccessBlock(type, persons, groups) ==
    [Type |-> type, Persons |-> persons, Groups |-> groups]

RightsDocs ==
    {[Access |-> <<AccessBlock(S.Read, <<vA>>, <<vG>>), AccessBlock(S.Edit, <<vB>>, <<>>)>>,
      Embargo |-> vLines, bad |-> FALSE],
     [Access |-> <<AccessBlock(S.Discover, <<vA>>, <<vG>>)>>,
      Embargo |-> <<>>, bad |-> FALSE],
     [Access |-> <<AccessBlock(S.Edit, <<<<>>, vA>>, <<>>)>>,
      Embargo |-> <<>>, bad |-> FALSE],
     [Access |-> <<AccessBlock(S.Read, <<vA>>, <<>>)>>,
      Embargo |-> vA, bad |-> TRUE]}

Statement(subj, pred, obj) == [Subj |-> subj, Pred |-> pred, Obj |-> obj]

\* a statement about the object, one about a blank node, one with an empty
\* object
DescDocs ==
    LET self == Statement(Prefixes[1].k \o <<120>>, Prefixes[3].k \o vA, vB)
        node == Statement(<<95, 58>> \o vB, Prefixes[3].k \o vA, Prefixes[1].k \o vG)
        empty == Statement(Prefixes[1].k \o <<120>>, Prefixes[3].k \o vA, <<>>)
    IN  {[triples |-> <<self, node>>, bad |-> FALSE],
         [triples |-> <<empty>>, bad |-> FALSE],
         [triples |-> <<self>>, bad |-> TRUE]}

InfoDocs ==
    {[Label |-> vA, Checksum |-> vB, MIMEType |-> <<>>, Location |-> vG]}

BendoDocs == {[bytes |-> vLines, bad |-> FALSE], [bytes |-> vB, bad |-> TRUE]}

\* the answers of the remote for a stream holding one of docs, missing, or
\* out of reach
Answers(docs) ==
    {Answer(ErrNil, d) : d \in docs}
        \cup {Answer(ErrNotFound, NoDoc), Answer(ErrTransport, NoDoc)}

\* strings.ReplaceAll(t.Object, "\n", "\\n")
RECURSIVE EscapeNewlines(_)
EscapeNewlines(s) ==
    IF s = <<>> THEN <<>>
    ELSE (IF Head(s) = 10 THEN <<92, 110>> ELSE <<Head(s)>>) \o EscapeNewlines(Tail(s))

Rows(meta) ==
    [i \in 1..Len(meta) |->
        <<meta[i].Subject, meta[i].Predicate, EscapeNewlines(meta[i].Object)>>]

ItemInit ==
    /\ cmd = "item"
    /\ pc = "start"
    /\ ids = <<CuratePid>>
    /\ input = NoInput
    /\ store = EmptyStore
    /\ target = EmptyStore
    /\ idx = 0
    /\ first = TRUE
    /\ out = <<>>
    /\ diag = <<>>
    /\ results = <<>>
    /\ held = <<>>
    /\ pos = 0
    /\ err = ErrNil
    /\ ret = "running"
    /\ ops = <<>>

\* the head of the loop of DownloadCurateObjects and the first lines of
\* FetchOneCurateObject
ItemStart ==
    /\ cmd = "item" /\ pc = "start" /\ idx < Len(ids)
    /\ idx' = idx + 1
    /\ diag' = Append(diag, Line("fetching", ids[idx + 1], ErrNil))
    /\ held' = <<[PID |-> ids[idx + 1], Meta |-> <<>>]>>
    /\ pc' = "RelsExt"
    /\ UNCHANGED <<cmd, store, target, ids, first, out, results, input, pos, err, ret, ops>>

\* which errors FetchOneCurateObject prints: all of them for the first four
\* extractors, all but ErrNotFound for the last three
Printed(quiet, e) == e # ErrNil /\ (quiet => e # ErrNotFound)

\* one extractor call of FetchOneCurateObject and the test after it; returns
\* holds what the extractor can return, one for each answer of the remote
Extract(here, returns, quiet, there) ==
    /\ cmd = "item" /\ pc = here
    /\ \E r \in returns :
         /\ held' = <<[held[1] EXCEPT !.Meta = r.meta]>>
         /\ err' = r.err
         /\ ops' = ops \o r.ops
         /\ diag' = IF Printed(quiet, r.err)
                        THEN Append(diag, Line("error", held[1].PID, r.err))
                        ELSE diag
    /\ pc' = there
    /\ UNCHANGED <<cmd, store, target, ids, idx, first, out, results, input, pos, ret>>

ItemRelsExt ==
    Extract("RelsExt",
            {ReadRelsExt(a, held[1].PID, held[1].Meta, order) :
                a \in Answers(RelsDocs), order \in MapOrders},
            FALSE, "Properties")

ItemProperties ==
    Extract("Properties",
            {ReadProperties(a, held[1].PID, held[1].Meta, order) :
                a \in Answers(PropertiesDocs), order \in MapOrders},
            FALSE, "RightsMetadata")

ItemRightsMetadata ==
    Extract("RightsMetadata",
            {ReadRightsMetadata(a, held[1].PID, held[1].Meta, order) :
                a \in Answers(RightsDocs), order \in MapOrders},
            FALSE, "DescMetadata")

ItemDescMetadata ==
    Extract("DescMetadata",
            {ReadDescMetadata(a, held[1].PID, held[1].Meta, order) :
                a \in Answers(DescDocs), order \in MapOrders},
            FALSE, "Content")

ItemContent ==
    Extract("Content",
            {ReadContent(a, held[1].PID, held[1].Meta, order) :
                a \in Answers(InfoDocs), order \in MapOrders},
            TRUE, "Thumbnail")

ItemThumbnail ==
    Extract("Thumbnail",
            {ReadThumbnail(a, held[1].PID, held[1].Meta, order) :
                a \in Answers(InfoDocs), order \in MapOrders},
            TRUE, "BendoItem")

ItemBendoItem ==
    Extract("BendoItem",
            {ReadBendoItem(a, held[1].PID, held[1].Meta, order) :
                a \in Answers(BendoDocs), order \in MapOrders},
            TRUE, "write")

\* FetchOneCurateObject has returned result, nil: the rows of the item, and
\* after the last item w.Flush() and return nil
ItemWrite ==
    /\ cmd = "item" /\ pc = "write"
    /\ out' = out \o Rows(held[1].Meta)
    /\ results' = Append(results, held[1])
    /\ err' = ErrNil
    /\ pc' = IF idx < Len(ids) THEN "start" ELSE "done"
    /\ ret' = IF idx < Len(ids) THEN ret ELSE ErrNil
    /\ UNCHANGED <<cmd, store, target, ids, idx, first, diag, held, input, pos, ops>>

ItemNext ==
    \/ ItemStart
    \/ ItemRelsExt
    \/ ItemProperties
    \/ ItemRightsMetadata
    \/ ItemDescMetadata
    \/ ItemContent
    \/ ItemThumbnail
    \/ ItemBendoItem
    \/ ItemWrite

SpecItem == ItemInit /\ [][ItemNext]_vars


\* ------------------------------------ every function that opens a content
\* the fetch path of the transcoder and the extractors of the normalizer
StreamsInit == ObjInit \/ ItemInit

StreamsNext == ObjNext \/ ItemNext

SpecStreams == StreamsInit /\ [][StreamsNext]_vars

\* -------------------------------------------------------------- properties
IsProbe(c) == c.op = "GetDatastreamInfo"
IsWrite(c) == c.op \in {"MakeDatastream", "UpdateDatastream"}
IsDsCall(c) == IsProbe(c) \/ IsWrite(c)
NotDC(e) == e.DsInfo.Name # DC
Fatal(res) == res \notin {ErrNil, ErrNotFound}

\* the source the priority rule gives for an entry: text, else raw, else none
PrioritySource(e) ==
    IF e.Content # <<>> THEN [kind |-> "text", bytes |-> e.Content]
    ELSE IF e.ContentBase64 # <<>> THEN [kind |-> "raw", bytes |-> e.ContentBase64]
    ELSE [kind |-> "nil", bytes |-> <<>>]

IsElem(t) == t.tok = "elem"
IsComma(t) == t.tok = ","
IsDumping(l) == l.kind = "dumping"

\* o is "[", then values separated by one comma each, then "]"
ValidArray(o) ==
    /\ Len(o) >= 2
    /\ o[1] = Punct("[")
    /\ o[Len(o)] = Punct("]")
    /\ LET body == SubSeq(o, 2, Len(o) - 1)
       IN  /\ body # <<>> => Len(body) % 2 = 1
           /\ \A i \in DOMAIN body :
                 IF i % 2 = 1 THEN IsElem(body[i]) /\ body[i].obj # <<>>
                 ELSE IsComma(body[i])

\* C1: the output of a finished dump is a valid JSON array, with one comma
\* fewer than elements written (none when nothing was written), whichever
\* fetches failed.
C1_WellFormedArray ==
    (cmd = "dump" /\ pc = "done") =>
        LET nElems == Len(SelectSeq(out, IsElem))
            nCommas == Len(SelectSeq(out, IsComma))
        IN  /\ ValidArray(out)
            /\ nCommas = IF nElems > 0 THEN nElems - 1 ELSE 0

\* an error of LoadList has been returned, and a failed call is the last one
C2_Returned ==
    cmd = "load" =>
        /\ err # ErrNil => (pc = "done" /\ ret = err)
        /\ \A i \in DOMAIN ops : Fatal(ops[i].res) => (i = Len(ops) /\ err = ops[i].res)

\* C2: in a load, an error (of a decode or of UploadOneObject) is returned at
\* once: the call that failed is the last call made on the remote, LoadList
\* has returned that error, and from then on no element is decoded and the
\* remote is not called or changed.
C2_FailFast ==
    /\ []C2_Returned
    /\ [][(cmd = "load" /\ err # ErrNil) =>
              (ops' = ops /\ pos' = pos /\ store' = store)]_vars

C2_Witness ==
    /\ cmd = "load" /\ pc = "done"
    /\ ret = ErrTransport
    /\ pos = 1 /\ Len(input.elems) = 2
    /\ input.elems[2].valid
    /\ Len(ops) > 3

\* the ids of the "dumping" lines, in the order written
RECURSIVE LineIds(_)
LineIds(ls) ==
    IF ls = <<>> THEN <<>> ELSE <<Head(ls).id>> \o LineIds(Tail(ls))

\* the "dumping" lines name the ids taken so far, in input order, once each
C3_Attempts ==
    cmd = "dump" =>
        /\ LineIds(SelectSeq(diag, IsDumping)) = SubSeq(ids, 1, idx)
        /\ Len(results) = idx

\* DumpList has gone through the whole list and written the closing bracket
DumpClosed ==
    /\ pc = "done"
    /\ idx = Len(ids)
    /\ out # <<>>
    /\ IF out = <<>> THEN FALSE ELSE out[Len(out)] = Punct("]")

\* C3: a dump attempts the ids one by one in input order, each once, and
\* whatever fetches fail it reaches the end of the list and writes the closing
\* bracket.
C3_DumpCompletes ==
    /\ []C3_Attempts
    /\ (cmd = "dump" /\ pc = "start") ~> DumpClosed

C3_Witness ==
    /\ cmd = "dump" /\ DumpClosed
    /\ Len(ids) = 2
    /\ results[1] = ErrTransport /\ results[2] = ErrNil

\* the ids whose fetch returned no error, in input order
RECURSIVE FetchedIds(_, _)
FetchedIds(idseq, res) ==
    IF res = <<>> THEN <<>>
    ELSE (IF Head(res) = ErrNil THEN <<Head(idseq)>> ELSE <<>>)
             \o FetchedIds(Tail(idseq), Tail(res))

\* C4: the elements written are the objects of the ids fetched without error,
\* one each, in input order (the object just fetched is not written yet while
\* DumpList is about to encode it).
C4_ElementsInOrder ==
    cmd = "dump" =>
        LET elems == SelectSeq(out, IsElem)
            fetched == FetchedIds(ids, results)
            written == IF pc = "encode" THEN SubSeq(fetched, 1, Len(fetched) - 1)
                       ELSE fetched
        IN  /\ Len(elems) = Len(written)
            /\ \A k \in DOMAIN elems :
                  /\ Len(elems[k].obj) = 1
                  /\ elems[k].obj[1].ObjectInfo = store[written[k]].info

C4_Witness ==
    /\ cmd = "dump" /\ pc = "done"
    /\ ids = <<PidA, PidA>>
    /\ results = <<ErrNil, ErrNil>>
    /\ Len(SelectSeq(out, IsElem)) = 2

\* C5: at most one FObject is live at any point, and none is while DumpList
\* is about to fetch the next id or LoadList is about to read the next
\* element: the one before has been written, or reconciled, and dropped.
C5_OneResident ==
    /\ Len(held) <= 1
    /\ pc \in {"loop", "more", "done"} => held = <<>>
    /\ cmd = "load" => Len(held) = (IF pc = "upload" THEN 1 ELSE 0)

C5_Witness ==
    /\ cmd = "load" /\ pc = "upload"
    /\ pos = 2
    /\ Len(held) = 1
    /\ held[1] = input.elems[2].obj
    /\ ops # <<>>

\* C6: a fetch followed by an upload into an empty store, no remote call
\* failing, leaves the target with the source's object record and, for every
\* datastream of the source but DC, the same record and the same bytes; and
\* the datastreams written are exactly those.
C6_RoundTrip ==
    (cmd = "roundtrip" /\ pc = "done" /\ err = ErrNil) =>
        LET pid == ids[1]
            src == store[pid]
            dst == target[pid]
            pushed == {ops[i].name : i \in {j \in DOMAIN ops : IsWrite(ops[j])}}
        IN  /\ dst.exists
            /\ dst.info = src.info
            /\ DOMAIN dst.ds = (DOMAIN src.ds) \ {DC}
            /\ \A n \in DOMAIN dst.ds :
                  /\ dst.ds[n].info = src.ds[n].info
                  /\ dst.ds[n].content = src.ds[n].content
            /\ pushed = (DOMAIN src.ds) \ {DC}

C6_Witness ==
    /\ cmd = "roundtrip" /\ pc = "done" /\ err = ErrNil
    /\ DOMAIN store[PidA].ds = Names
    /\ target[PidA].ds[dcLower].content = <<195, 169>>
    /\ target[PidA].ds[DName].content = <<169>>

\* the bytes ReadAll returned for the datastream name, when it was read
WasRead(name) ==
    \E i \in DOMAIN ops : ops[i].op = "ReadAll" /\ ops[i].name = name /\ ops[i].res = ErrNil

\* C7: for every datastream whose bytes FetchOneObject read, exactly one of
\* Content and ContentBase64 is non-empty in the entry: Content holds the bytes
\* when they are valid UTF-8, ContentBase64 holds them otherwise.
C7_EncodingInvariant ==
    (cmd = "roundtrip" /\ held # <<>>) =>
        \A i \in DOMAIN held[1].DSitems :
            LET e == held[1].DSitems[i]
                raw == store[ids[1]].ds[e.DsInfo.Name].content
            IN  WasRead(e.DsInfo.Name) =>
                    /\ (e.Content # <<>>) # (e.ContentBase64 # <<>>)
                    /\ Utf8Valid(raw) => (e.Content = raw /\ e.ContentBase64 = <<>>)
                    /\ ~Utf8Valid(raw) => (e.ContentBase64 = raw /\ e.Content = <<>>)

C7_Witness ==
    /\ cmd = "roundtrip" /\ held # <<>>
    /\ \E i, j \in DOMAIN held[1].DSitems :
          /\ WasRead(held[1].DSitems[i].DsInfo.Name)
          /\ held[1].DSitems[i].Content = <<195, 169>>
          /\ WasRead(held[1].DSitems[j].DsInfo.Name)
          /\ held[1].DSitems[j].ContentBase64 = <<65, 195>>

\* the datastream writes of an upload, and the entries they are made for
Writes == SelectSeq(ops, IsWrite)
PushedEntries == SelectSeq(held[1].DSitems, NotDC)

\* C8: the content source of every datastream write is the entry's text when
\* the text is non-empty (whatever ContentBase64 holds), the raw bytes when
\* only they are non-empty, and no source when both are empty.
C8_SourcePriority ==
    cmd = "upload" =>
        /\ Len(Writes) <= Len(PushedEntries)
        /\ \A k \in DOMAIN Writes : Writes[k].source = PrioritySource(PushedEntries[k])

C8_Witness ==
    /\ cmd = "upload" /\ pc = "done"
    /\ \E k \in DOMAIN Writes :
          /\ PushedEntries[k].Content # <<>>
          /\ PushedEntries[k].ContentBase64 # <<>>
          /\ Writes[k].source.kind = "text"
    /\ \E k \in DOMAIN Writes : Writes[k].source.kind = "raw"

\* C9: an upload makes no probe, create or update call for the name "DC", and
\* an upload that ends without error has probed every entry of another name
\* ("dc" included), in list order.
C9_NeverPushDC ==
    cmd = "upload" =>
        /\ \A i \in DOMAIN ops : IsDsCall(ops[i]) => ops[i].name # DC
        /\ (pc = "done" /\ err = ErrNil) =>
              LET probes == SelectSeq(ops, IsProbe)
              IN  /\ Len(probes) = Len(PushedEntries)
                  /\ \A k \in DOMAIN probes : probes[k].name = PushedEntries[k].DsInfo.Name

C9_Witness ==
    /\ cmd = "upload" /\ pc = "done" /\ err = ErrNil
    /\ Len(held[1].DSitems) = 2
    /\ held[1].DSitems[1].DsInfo.Name = DC
    /\ held[1].DSitems[2].DsInfo.Name = dcLower
    /\ Len(Writes) = 1

\* C10: the datastream calls of an upload are, for each entry not named DC in
\* list order, a probe and then one write: a create exactly when the probe
\* answered not-found, an update exactly when it succeeded, with the entry's
\* record and chosen source. A probe failing otherwise, or a failing write, is
\* the last call made and its error is the one returned.
C10_CreateOrUpdate ==
    (cmd = "upload" /\ pc = "done") =>
        LET calls == SelectSeq(ops, IsDsCall)
            n == Len(calls)
        IN  /\ n <= 2 * Len(PushedEntries)
            /\ err = ErrNil => n = 2 * Len(PushedEntries)
            /\ \A j \in 1..n :
                  LET c == calls[j]
                      e == PushedEntries[(j + 1) \div 2]
                  IN  IF j % 2 = 1
                          THEN /\ IsProbe(c)
                               /\ c.name = e.DsInfo.Name
                               /\ Fatal(c.res) <=> (j = n)
                               /\ Fatal(c.res) => err = c.res
                          ELSE /\ IsWrite(c)
                               /\ (c.op = "MakeDatastream") <=> (calls[j - 1].res = ErrNotFound)
                               /\ (c.op = "UpdateDatastream") <=> (calls[j - 1].res = ErrNil)
                               /\ c.info = e.DsInfo
                               /\ c.source = ChooseSource(e)
                               /\ c.res # ErrNil => (j = n /\ err = c.res)

C10_Witness ==
    /\ cmd = "upload" /\ pc = "done" /\ err = ErrNil
    /\ \E i, j \in DOMAIN ops :
          /\ i < j
          /\ ops[i].op = "UpdateDatastream"
          /\ ops[j].op = "MakeDatastream"

IsMakeObject(c) == c.op = "MakeObject"

\* the object calls of a finished upload: the probe, then a create exactly
\* when the probe answered not-found; a failing probe or create is the only
\* or last call and its error is returned
C11_ObjectCalls ==
    (cmd = "upload" /\ pc = "done") =>
        /\ ops # <<>>
        /\ IF ops = <<>> THEN FALSE ELSE
           /\ ops[1].op = "GetObjectInfo"
           /\ ops[1].pid = held[1].ObjectInfo.PID
           /\ Len(SelectSeq(ops, IsMakeObject)) = (IF ops[1].res = ErrNotFound THEN 1 ELSE 0)
           /\ Fatal(ops[1].res) => (Len(ops) = 1 /\ err = ops[1].res)
           /\ ops[1].res = ErrNotFound =>
                 /\ Len(ops) >= 2
                 /\ IF Len(ops) < 2 THEN FALSE ELSE
                    /\ IsMakeObject(ops[2])
                    /\ ops[2].oinfo = held[1].ObjectInfo
                    /\ ops[2].res # ErrNil => (Len(ops) = 2 /\ err = ops[2].res)

\* C11: UploadOneObject creates the object exactly when the probe for its PID
\* answers not-found; the record of an object that exists is left as it is;
\* a probe failing otherwise, or a failing create, is returned with no
\* datastream probed or written.
C11_ObjectReconciliation ==
    /\ []C11_ObjectCalls
    /\ [][(cmd = "upload" /\ target[held[1].ObjectInfo.PID].exists) =>
              target'[held[1].ObjectInfo.PID].info = target[held[1].ObjectInfo.PID].info]_vars

C11_Witness ==
    /\ cmd = "upload" /\ pc = "done" /\ err = ErrNil
    /\ ops[1].res = ErrNil
    /\ Len(Writes) = 2
    /\ target[PidA].info.Label = "stored"
    /\ held[1].ObjectInfo.Label = "decoded"

\* C12: the datastream list of a fetched object is in strictly increasing
\* bytewise order of name and holds one entry for each name the remote lists
\* for the object, in whatever order the remote listed them.
C12_SortedDatastreams ==
    (cmd = "roundtrip" /\ held # <<>>) =>
        LET items == held[1].DSitems
            listed == DOMAIN store[ids[1]].ds
        IN  /\ Len(items) = Cardinality(listed)
            /\ {items[i].DsInfo.Name : i \in DOMAIN items} = listed
            /\ \A i \in 1..(Len(items) - 1) :
                  StrLess(items[i].DsInfo.Name, items[i + 1].DsInfo.Name)

C12_Witness ==
    /\ cmd = "roundtrip" /\ held # <<>>
    /\ Len(held[1].DSitems) = 3
    /\ held[1].DSitems[1].DsInfo.Name = DName
    /\ held[1].DSitems[2].DsInfo.Name = DC
    /\ held[1].DSitems[3].DsInfo.Name = dcLower

\* C14: a string that starts with a key of the table is returned with that
\* key replaced by its short form and the rest unchanged, replaced once (the
\* rest keeps a key it starts with); a string that starts with no key is
\* returned as it is.
C14_PrefixCompaction ==
    (cmd = "prefix" /\ pc = "done") =>
        /\ \A i \in DOMAIN Prefixes :
              HasPrefix(input, Prefixes[i].k) =>
                  out = Prefixes[i].v \o SubSeq(input, Len(Prefixes[i].k) + 1, Len(input))
        /\ (\A i \in DOMAIN Prefixes : ~HasPrefix(input, Prefixes[i].k)) => out = input

C14_Witness ==
    /\ cmd = "prefix" /\ pc = "done"
    /\ input = Prefixes[2].k \o Prefixes[1].k
    /\ out = Prefixes[1].k

\* the extractor stages of FetchOneCurateObject, in the order of the code
Stages ==
    <<"RelsExt", "Properties", "RightsMetadata", "DescMetadata", "Content",
      "Thumbnail", "BendoItem">>

StageStreams ==
    <<S.RelsExt, S.Properties, S.RightsMetadata, S.DescMetadata, S.Content,
      S.Thumbnail, S.BendoItem>>

StageAfter(p) ==
    IF p = "BendoItem" THEN "write"
    ELSE Stages[(CHOOSE i \in 1..Len(Stages) : Stages[i] = p) + 1]

InStage == cmd = "item" /\ pc \in {Stages[i] : i \in 1..Len(Stages)}

IsPrefixOf(a, b) == Len(a) <= Len(b) /\ SubSeq(b, 1, Len(a)) = a

IsFetch(o) == o.op \in {"GetDatastream", "GetDatastreamInfo"}

\* the streams asked for so far, in the order of the calls
RECURSIVE Asked(_)
Asked(os) ==
    IF os = <<>> THEN <<>>
    ELSE (IF IsFetch(Head(os)) THEN <<Head(os).name>> ELSE <<>>) \o Asked(Tail(os))

MetaOf(h) == IF h = <<>> THEN <<>> ELSE h[1].Meta

\* the calls of the step being taken: the fetch comes first
FirstNew == ops'[Len(ops) + 1]
FetchFailed == FirstNew.res # ErrNil
ParseFailed ==
    \E i \in (Len(ops) + 1)..Len(ops') :
        ops'[i].op \in {"Decode", "ReadAll"} /\ ops'[i].res \in {ErrDecode, ErrRead}
StepFailed == FetchFailed \/ ParseFailed

\* parts of the served document that were decoded before its error
DecodedParts(doc) ==
    IF pc = "RelsExt" THEN Len(doc.P)
    ELSE IF pc = "DescMetadata" THEN Len(doc.triples)
    ELSE 0

C13_Runs ==
    /\ (cmd = "item" /\ pc \in {"write", "done"}) => Asked(ops) = StageStreams
    /\ (cmd = "item" /\ pc = "done") =>
           /\ ret = ErrNil /\ err = ErrNil
           /\ results = held
           /\ out = Rows(held[1].Meta)

C13_Step ==
    InStage =>
        /\ pc' = StageAfter(pc)
        /\ IsPrefixOf(MetaOf(held), MetaOf(held'))

\* C13 as stated: the normalizer never fails for an object: the seven
\* extractors run in their fixed order whatever each one meets, a failing or
\* missing stream contributes zero triples, and the call returns nil with the
\* triples gathered, in insertion order.
C13_ZeroOnFailure ==
    /\ []C13_Runs
    /\ [][C13_Step]_vars
    /\ [][(InStage /\ StepFailed) => MetaOf(held') = MetaOf(held)]_vars

\* C13: the normalizer never fails for an object: the seven extractors run in
\* their fixed order whatever each one meets and the call returns nil with
\* the triples gathered, in insertion order. A stream that is missing or
\* cannot be fetched contributes zero triples; a stream whose parse fails
\* contributes at most the triples of the parts decoded before the error,
\* and none for properties, rightsMetadata and bendo-item.
C13_NeverFails ==
    /\ []C13_Runs
    /\ [][C13_Step]_vars
    /\ [][(InStage /\ FetchFailed) => MetaOf(held') = MetaOf(held)]_vars
    /\ [][(InStage /\ ~FetchFailed /\ ParseFailed) =>
             Len(MetaOf(held')) <= Len(MetaOf(held)) + DecodedParts(FirstNew.doc)]_vars

C13_Witness ==
    /\ cmd = "item" /\ pc = "done" /\ ret = ErrNil
    /\ held[1].Meta # <<>>
    /\ \E i \in 1..Len(ops) : ops[i].res = ErrTransport
    /\ \E i \in 1..Len(ops) : ops[i].res = ErrNotFound
    /\ \E i \in 1..Len(ops) : ops[i].res = ErrDecode /\ ops[i].name = S.Properties
    /\ \E i \in 1..Len(ops) : ops[i].res = ErrDecode /\ ops[i].name = S.DescMetadata

IsFailure(res) == res \in {ErrTransport, ErrDecode, ErrRead}

FailedCalls(os) == {i \in 1..Len(os) : IsFailure(os[i].res)}

\* C15: every failure during metadata extraction (a fetch error, an XML or
\* triple decode error, a read error) is written to the diagnostic channel
\* together with the identifier of the object: each failed call has its own
\* line showing the identifier and the error.
C15_EveryFailureLogged ==
    cmd = "item" =>
        /\ \A i \in FailedCalls(ops) :
               \E j \in 1..Len(diag) :
                   diag[j] = Line("error", ops[i].pid, ops[i].res)
        /\ Cardinality(FailedCalls(ops)) =
               Cardinality({j \in 1..Len(diag) : IsFailure(diag[j].err)})

NewTriples == SubSeq(MetaOf(held'), Len(MetaOf(held)) + 1, Len(MetaOf(held')))

WithLabel(ts, labels) == Cardinality({i \in 1..Len(ts) : ts[i].Predicate \in labels})

RightsLabels == {S.ReadPerson, S.ReadGroup, S.EditPerson, S.EditGroup}

RECURSIVE Listed(_)
Listed(as) ==
    IF as = <<>> THEN 0
    ELSE Len(Head(as).Persons) + Len(Head(as).Groups) + Listed(Tail(as))

NonEmpty(vs) == Cardinality({i \in 1..Len(vs) : vs[i] # <<>>})

\* the non-empty identifiers of one kind listed by the blocks of one type
RECURSIVE ListedAs(_, _, _)
ListedAs(as, type, kind) ==
    IF as = <<>> THEN 0
    ELSE (IF Head(as).Type = type
              THEN NonEmpty(IF kind = "person" THEN Head(as).Persons ELSE Head(as).Groups)
              ELSE 0) + ListedAs(Tail(as), type, kind)

RightsDone == cmd = "item" /\ pc = "RightsMetadata" /\ ~StepFailed

EmbargoOnce ==
    WithLabel(NewTriples, {S.EmbargoDate}) = IF FirstNew.doc.Embargo # <<>> THEN 1 ELSE 0

\* C16 as stated: for a present rightsMetadata stream whose access blocks
\* list N person and group identifiers, ReadRightsMetadata adds exactly N
\* person/group triples, plus one embargo-date triple iff an embargo date is
\* present.
C16_OnePerListed ==
    [][RightsDone =>
          /\ WithLabel(NewTriples, RightsLabels) = Listed(FirstNew.doc.Access)
          /\ Len(NewTriples) = Listed(FirstNew.doc.Access)
                                   + WithLabel(NewTriples, {S.EmbargoDate})
          /\ EmbargoOnce]_vars

\* C16: for a present rightsMetadata stream, ReadRightsMetadata adds one
\* triple for each non-empty person or group identifier listed by an access
\* block of type read or edit, under the label of that type and kind
\* (read-person, read-group, edit-person, edit-group), nothing for blocks of
\* another type or for empty identifiers, plus one embargo-date triple iff
\* the embargo date is non-empty.
C16_RightsCount ==
    [][RightsDone =>
          LET as == FirstNew.doc.Access
          IN  /\ WithLabel(NewTriples, {S.ReadPerson}) = ListedAs(as, S.Read, "person")
              /\ WithLabel(NewTriples, {S.ReadGroup}) = ListedAs(as, S.Read, "group")
              /\ WithLabel(NewTriples, {S.EditPerson}) = ListedAs(as, S.Edit, "person")
              /\ WithLabel(NewTriples, {S.EditGroup}) = ListedAs(as, S.Edit, "group")
              /\ Len(NewTriples) = WithLabel(NewTriples, RightsLabels \cup {S.EmbargoDate})
              /\ EmbargoOnce]_vars

C16_Witness ==
    /\ cmd = "item" /\ pc = "DescMetadata" /\ err = ErrNil
    /\ \E i \in 1..Len(ops) :
           /\ ops[i].name = S.RightsMetadata /\ ops[i].op = "GetDatastream"
           /\ Listed(ops[i].doc.Access) = 3
           /\ ops[i].doc.Embargo # <<>>
    /\ WithLabel(held[1].Meta, {S.ReadPerson, S.ReadGroup}) = 2
    /\ WithLabel(held[1].Meta, {S.EmbargoDate}) = 1

\* the statement subjects, compacted, that descMetadata has served
LocalSubjects ==
    {ApplyPrefixes(t.Subj, o) :
        t \in UNION {{d.triples[i] : i \in 1..Len(d.triples)} : d \in DescDocs},
        o \in MapOrders}

DescDone == cmd = "item" /\ pc = "DescMetadata" /\ ~FetchFailed

\* the statements whose object is not empty, in order
RECURSIVE Kept(_, _)
Kept(ts, order) ==
    IF ts = <<>> THEN <<>>
    ELSE (IF ApplyPrefixes(Head(ts).Obj, order) # <<>> THEN <<Head(ts)>> ELSE <<>>)
             \o Kept(Tail(ts), order)

\* C20: every triple gathered for an object with identifier PID has a
\* subject that is PID or PID + "/" + s for a local subject s; the triple
\* ReadDescMetadata adds for a statement has subject PID when the compacted
\* statement subject equals PID and PID + "/" + compacted subject otherwise,
\* and every other extractor uses PID as subject.
C20_SubjectScoped ==
    /\ [](cmd = "item" =>
            \A i \in 1..Len(MetaOf(held)) :
                LET sub == held[1].Meta[i].Subject
                IN  \/ sub = held[1].PID
                    \/ \E s \in LocalSubjects :
                           s # held[1].PID /\ sub = held[1].PID \o S.Slash \o s)
    /\ [][(InStage /\ pc # "DescMetadata") =>
             \A i \in 1..Len(NewTriples) : NewTriples[i].Subject = held[1].PID]_vars
    /\ [][DescDone =>
             \E order \in MapOrders :
                 LET ts == Kept(FirstNew.doc.triples, order)
                 IN  /\ Len(NewTriples) = Len(ts)
                     /\ \A i \in 1..Len(ts) :
                            LET s == ApplyPrefixes(ts[i].Subj, order)
                            IN  NewTriples[i].Subject =
                                    IF s = held[1].PID THEN held[1].PID
                                    ELSE held[1].PID \o S.Slash \o s]_vars

C20_Witness ==
    /\ cmd = "item" /\ pc = "Content"
    /\ \E i, j \in 1..Len(held[1].Meta) :
           /\ held[1].Meta[i].Subject = held[1].PID
           /\ held[1].Meta[i].Predicate = Prefixes[3].v \o vA
           /\ held[1].Meta[j].Subject = held[1].PID \o S.Slash \o <<95, 58>> \o vB
    /\ \E i \in 1..Len(held[1].Meta) : held[1].Meta[i].Predicate = S.Depositor

FailedAt(os) == {i \in 1..Len(os) : os[i].res # ErrNil}

\* the entry of the object for the stream name is complete
Populated(obj, name, os) ==
    \E k \in 1..Len(obj.DSitems) :
        LET e == obj.DSitems[k]
            d == store[ids[1]].ds[name]
        IN  /\ e.DsInfo = d.info
            /\ \E i \in 1..Len(os) : os[i].op = "GetDatastreamInfo" /\ os[i].name = name
            /\ d.info.Size > 0 =>
                   /\ \E i \in 1..Len(os) : os[i].op = "ReadAll" /\ os[i].name = name
                   /\ (IF e.Content # <<>> THEN e.Content ELSE e.ContentBase64) = d.content

\* C17: FetchOneObject is all-or-nothing: when the fetch of the object
\* record, of the listing, of a datastream record or of a content, or the
\* read of a content fails, it returns that error and a nil object; it
\* returns an object only when every stage of every datastream succeeded,
\* and then every listed datastream has its complete entry.
C17_AllOrNothing ==
    [][(cmd = "roundtrip" /\ pc = "fetch") =>
          /\ (held' = <<>>) <=> (err' # ErrNil)
          /\ (FailedAt(ops') # {}) =>
                 /\ held' = <<>>
                 /\ \A i \in FailedAt(ops') : err' = ops'[i].res
          /\ (held' # <<>>) =>
                 /\ FailedAt(ops') = {}
                 /\ held'[1].ObjectInfo = store[ids[1]].info
                 /\ Len(held'[1].DSitems) = Cardinality(DOMAIN store[ids[1]].ds)
                 /\ \A name \in DOMAIN store[ids[1]].ds :
                        Populated(held'[1], name, ops')]_vars

C17_Witness ==
    /\ cmd = "roundtrip" /\ pc = "done" /\ held = <<>> /\ err = ErrRead
    /\ \E i, j \in 1..Len(ops) :
           /\ i < j
           /\ ops[i].op = "ReadAll" /\ ops[i].res = ErrNil
           /\ ops[j].op = "ReadAll" /\ ops[j].res = ErrRead

\* C18: LoadList returns nil only if the input began with an opening array
\* bracket, every element decoded and was reconciled without error, and the
\* array was closed by its matching bracket; it returns an error when the
\* token after the last element is not that bracket.
C18_WellFramed ==
    (cmd = "load" /\ pc = "done") =>
        /\ ret = ErrNil =>
               /\ input.open = "[" /\ input.close = "]"
               /\ pos = Len(input.elems)
               /\ \A i \in 1..Len(input.elems) : input.elems[i].valid
               /\ \A i \in 1..Len(ops) : ~Fatal(ops[i].res)
        /\ input.close = "err" => ret # ErrNil

IsRead(o) == o.op \in {"ReadAll", "Decode"}

\* The calls os, made with the content streams open at their start, keep
\* every content stream in scope: a stream is opened with none open, only
\* reads of it come before its Close, it has been read when it is closed,
\* and none is left open at the end. read tells whether the open stream has
\* been read.
RECURSIVE Scoped(_, _, _)
Scoped(os, open, read) ==
    IF os = <<>> THEN open = {}
    ELSE LET o == Head(os)
         IN  IF o.op = "GetDatastream" /\ o.res = ErrNil
                 THEN open = {} /\ Scoped(Tail(os), {o.name}, FALSE)
             ELSE IF IsRead(o)
                 THEN open = {o.name} /\ Scoped(Tail(os), open, TRUE)
             ELSE IF o.op = "Close"
                 THEN /\ (open # {} => (open = {o.name} /\ read))
                      /\ Scoped(Tail(os), {}, FALSE)
             ELSE open = {} /\ Scoped(Tail(os), open, FALSE)

Opened(os) == {os[i].name : i \in {j \in 1..Len(os) : os[j].op = "GetDatastream"}}

\* C19: every content stream opened by FetchOneObject or by an extractor is
\* closed after it has been read, whether the read or the parse worked or
\* not, and before the next remote call; at most one is open at any point
\* and none when the function that opened it has returned. FetchOneObject
\* opens the content only of a datastream whose recorded size is above zero.
C19_ScopedReaders ==
    /\ Scoped(ops, {}, FALSE)
    /\ (cmd = "roundtrip" /\ pc # "fetch") =>
           \A name \in Opened(ops) : store[ids[1]].ds[name].info.Size > 0

C19_Witness ==
    /\ cmd = "roundtrip" /\ err = ErrRead
    /\ Len(ops) = 7
    /\ ops[3].op = "GetDatastreamInfo" /\ store[ids[1]].ds[ops[3].name].info.Size = 0
    /\ ops[4].op = "GetDatastreamInfo" /\ store[ids[1]].ds[ops[4].name].info.Size > 0
    /\ ops[5].op = "GetDatastream"
    /\ ops[6].op = "ReadAll" /\ ops[6].res = ErrRead
    /\ ops[7].op = "Close" /\ ops[7].name = ops[5].name

Matches(s) == {i \in DOMAIN Prefixes : HasPrefix(s, Prefixes[i].k)}

\* C21: ApplyPrefixes is deterministic for the table Prefixes: no key of the
\* table is a prefix of another key, so at most one key matches an input
\* string, and the result under the order the range took is the result
\* under every other order of iteration.
C21_Deterministic ==
    /\ \A i, j \in DOMAIN Prefixes :
           i # j => ~HasPrefix(Prefixes[i].k, Prefixes[j].k)
    /\ cmd = "prefix" => Cardinality(Matches(input)) <= 1
    /\ (cmd = "prefix" /\ pc = "done") =>
           \A order \in MapOrders : ApplyPrefixes(input, order) = out

C21_Witness ==
    /\ cmd = "prefix" /\ pc = "done"
    /\ input = Prefixes[13].k \o <<120>>
    /\ Matches(input) = {13}
    /\ out = Prefixes[13].v \o <<120>>

====
